---- MODULE Spec2Model ----
(***************************************************************************)
(* One websocket connection of diffodil (src/src/diffodil/server.py): the  *)
(* session state, the inbound and outbound queues, and the tasks of the    *)
(* connection's task group (send_init_data, recv_loop,                     *)
(* handle_client_msg_loop, handle_state_changes_loop, send_loop), together *)
(* with the gateway calls of src/src/diffodil/git.py they issue.           *)
(*                                                                         *)
(* asyncio runs the tasks on one thread: a task runs until it suspends     *)
(* (gateway subprocess, timer, empty queue, transport).  Every action      *)
(* below is one such run, from one suspension point to the next.           *)
(***************************************************************************)
EXTENDS Integers, Sequences, FiniteSets, TLC

\* ------------------------------------------------------------- bounds
\* Messages the receive task reads from the transport in one behaviour.
MaxCmds == 3
\* send_loop's max_chunk_size as the model runs it (the server passes 100).
MaxChunk == 3
\* Messages read in one behaviour of the specifications that draw from a
\* few message shapes only.
MaxOps == 4
\* q_rx's capacity in the specification that runs the queue full (the
\* server passes 10000).
MaxQueue == 2
\* Lines of git's output that the fold of a unified diff is run on.
MaxLines == 4

\* ------------------------------------------------------------- values
None == "None"

Repos == {"r1"}
\* The branch a repository has checked out, as the gateway reports it.
CheckedOut == {"main"}
Commits == {"c1", "c2"}
Paths == {"p1", "p2"}

\* The connection's key in the process-wide registries qs_tx and qs_rx.
uid == "uid"

\* Python truthiness of a str | None.
Truthy(x) == x # None /\ x # ""

\* asyncio.Queue(10000), for q_tx and q_rx alike.
q_maxsize == 10000

Range(s) == {s[i] : i \in 1..Len(s)}

\* The sequences over S that hold every element of S once (list(set)).
Orders(S) == {s \in [1..Cardinality(S) -> S] : Range(s) = S}

\* A remove that drops the head of the list, whatever x is.
RemoveHead(s, x) == Tail(s)

RECURSIVE Remove(_, _)
\* list.remove(x): the first occurrence only.
Remove(s, x) ==
    IF s = <<>> THEN <<>>
    ELSE IF Head(s) = x THEN Tail(s)
    ELSE <<Head(s)>> \o Remove(Tail(s), x)

\* ------------------------------------------------------ session state
GitFlags == [max_count |-> 25, context_lines |-> 3, diff_algo |-> "myers",
             ignore_all_space |-> FALSE]

SessionState == [repo |-> None, branch |-> None, commit_a |-> None,
                 commit_b |-> None, open_paths |-> <<>>, git_flags |-> GitFlags]

\* ------------------------------------------------------ client messages
Msg(t, a, ps, hp, v) ==
    [type |-> t, arg |-> a, paths |-> ps, has_paths |-> hp, value |-> v]

Plain(t) == Msg(t, None, <<>>, FALSE, FALSE)
WithArg(t, a) == Msg(t, a, <<>>, FALSE, FALSE)

\* The client messages a behaviour draws from: every shape of
\* decode_client_msg, over the values above.
MsgClient ==
    {Plain(t) : t \in {"ping", "pong", "heartbeat", "reset-commit-a",
                       "reset-commit-b", "swap-commits", "context-inc",
                       "context-dec", "context-reset"}}
    \cup {WithArg("set-commit-a", c) : c \in Commits}
    \cup {WithArg("set-commit-b", c) : c \in Commits}
    \cup {WithArg("repo-select", r) : r \in Repos}
    \cup {WithArg("branch-select", b) : b \in {"dev"}}
    \cup {WithArg("open-path", p) : p \in Paths}
    \cup {WithArg("close-path", p) : p \in {"p1"}}
    \cup {Msg("ignore-all-space", None, <<>>, FALSE, TRUE)}
    \cup {Msg("set-open-paths", None, ps, TRUE, FALSE) :
            ps \in {<<"p1", "p1">>, <<"p2", "p1">>}}
    \cup {Msg("get-diff", None, <<>>, FALSE, FALSE),
          Msg("get-diff", None, <<"p1">>, TRUE, FALSE)}

\* The commands a handler serves without a gateway call and whatever the
\* repository: the expanded paths and the context lines.
MsgLocal ==
    {WithArg("open-path", p) : p \in Paths}
    \cup {WithArg("close-path", p) : p \in Paths}
    \cup {Plain(t) : t \in {"context-inc", "context-dec", "context-reset"}}

\* The commands that lead to a get-diff in a session with a repository, an
\* endpoint and an expanded path.
MsgClientGetDiff ==
    {WithArg("repo-select", "r1"), WithArg("set-commit-a", "c1"),
     WithArg("open-path", "p1"), Msg("get-diff", None, <<>>, FALSE, FALSE)}

\* The commands of a session that expands a path, selects a repository and
\* sets one endpoint and then the other.
MsgClientResync ==
    {WithArg("open-path", "p1"), WithArg("repo-select", "r1"),
     WithArg("set-commit-a", "c1"), WithArg("set-commit-b", "c2")}

\* The commands of a session with a burst of events (repo-select puts
\* four) and with single ones.
MsgClientBatch ==
    {WithArg("repo-select", "r1"), WithArg("set-commit-a", "c1"),
     WithArg("open-path", "p1")}

\* The messages of a behaviour that exercises the outbound path.
MsgClientFew ==
    {WithArg("repo-select", "r1"), WithArg("set-commit-a", "c1"),
     WithArg("branch-select", "dev"), WithArg("open-path", "p1"),
     Msg("get-diff", None, <<>>, FALSE, FALSE)}

\* ------------------------------------------------------ decode_client_msg
\* The text of one inbound frame, as json.loads sees it: a JSON object or
\* not, the value under "type" (None when there is none), and the one other
\* key it holds (None when there is none) with its value.
Payload(obj, type, key, val) ==
    [obj |-> obj, type |-> type, key |-> key, val |-> val]

\* raise RuntimeError(...), as the value of the call.
DecodeError == Plain("RuntimeError")

\* A decoder that takes an object of unknown type for a ping.
decode_client_msg_lenient(p) ==
    IF p.obj THEN Plain("ping") ELSE DecodeError

decode_client_msg(p) ==
    IF ~p.obj THEN DecodeError
    ELSE CASE p.type = "ping" -> Plain("ping")
           [] p.type = "pong" -> Plain("pong")
           [] p.type = "heartbeat" /\ p.key = "timestamp" -> Plain("heartbeat")
           [] p.type = "set-commit-a" /\ p.key = "commit" ->
                 WithArg("set-commit-a", p.val)
           [] p.type = "set-commit-b" /\ p.key = "commit" ->
                 WithArg("set-commit-b", p.val)
           [] p.type = "reset-commit-a" -> Plain("reset-commit-a")
           [] p.type = "reset-commit-b" -> Plain("reset-commit-b")
           [] p.type = "swap-commits" -> Plain("swap-commits")
           [] p.type = "context-inc" -> Plain("context-inc")
           [] p.type = "context-dec" -> Plain("context-dec")
           [] p.type = "ignore-all-space" /\ p.key = "value" ->
                 Msg("ignore-all-space", None, <<>>, FALSE, p.val)
           [] p.type = "context-reset" -> Plain("context-reset")
           [] p.type = "repo-select" /\ p.key = "repo" ->
                 WithArg("repo-select", p.val)
           [] p.type = "get-diff" /\ p.key = "paths" ->
                 Msg("get-diff", None, p.val, TRUE, FALSE)
           [] p.type = "get-diff" -> Msg("get-diff", None, <<>>, FALSE, FALSE)
           [] p.type = "branch-select" /\ p.key = "branch" ->
                 WithArg("branch-select", p.val)
           [] p.type = "open-path" /\ p.key = "path" ->
                 WithArg("open-path", p.val)
           [] p.type = "close-path" /\ p.key = "path" ->
                 WithArg("close-path", p.val)
           [] p.type = "set-open-paths" /\ p.key = "paths" ->
                 Msg("set-open-paths", None, p.val, TRUE, FALSE)
           [] OTHER -> DecodeError

\* The frames a behaviour of the whole connection draws from: five that
\* decode, and one of an unknown type, one that lacks its field, one that is
\* no object.
PayloadsWire ==
    {Payload(TRUE, "repo-select", "repo", "r1"),
     Payload(TRUE, "set-commit-a", "commit", "c1"),
     Payload(TRUE, "branch-select", "branch", "dev"),
     Payload(TRUE, "open-path", "path", "p1"),
     Payload(TRUE, "get-diff", None, None),
     Payload(TRUE, "bogus", None, None),
     Payload(TRUE, "set-commit-a", None, None),
     Payload(FALSE, None, None, None)}

\* ------------------------------------------------------ gateway (git.py)
NoOpts == [patch |-> FALSE, compact |-> FALSE, unified |-> -1, algo |-> None,
           ignore_all_space |-> FALSE, max_count |-> 0]

\* The argv of one git subprocess: subcommand, options, revisions, and the
\* paths that follow "--".
GitCmd(sub, opts, revs, paths) ==
    [sub |-> sub, opts |-> opts, revs |-> revs, paths |-> paths]

PatchOpts(flags) ==
    [patch |-> TRUE, compact |-> FALSE, unified |-> flags.context_lines,
     algo |-> flags.diff_algo, ignore_all_space |-> flags.ignore_all_space,
     max_count |-> 0]

\* f"{commit}^"
Parent(c) ==
    CASE c = "c1" -> "c1^"
      [] c = "c2" -> "c2^"
      [] OTHER -> "^"

\* A call of a git.py coroutine, as it stands once its subprocess is started:
\* the directory, the argv, and the endpoints the result will be labelled with.
\* slice is the number of leading items kept of the list it returns, 0 for
\* the whole of it.
Call(fn, repo, cmd, from, to) ==
    [fn |-> fn, cwd |-> repo, cmd |-> cmd, from_commit |-> from,
     to_commit |-> to, slice |-> 0]

\* result[:n]
Slice(call, n) == [call EXCEPT !.slice = n]

NoCall == Call("none", None, GitCmd("none", NoOpts, <<>>, <<>>), None, None)

get_git_diff(repo, commit_a, commit_b, flags, paths) ==
    Call("get_git_diff", repo,
         GitCmd("diff", PatchOpts(flags), <<commit_a, commit_b>>, paths),
         commit_a, commit_b)

get_commit_diff(repo, commit, flags, paths) ==
    Call("get_commit_diff", repo,
         GitCmd("show", PatchOpts(flags), <<>>, paths),
         commit, commit)

git_diff_compact_summary(repo, commit_a, commit_b) ==
    LET b == IF Truthy(commit_b) THEN commit_b ELSE commit_a
        a == IF Truthy(commit_b) THEN commit_a ELSE Parent(commit_a)
    IN  Call("git_diff_compact_summary", repo,
             GitCmd("diff", [NoOpts EXCEPT !.compact = TRUE], <<a, b>>, <<>>),
             a, b)

get_list_of_branches(repo) ==
    Call("get_list_of_branches", repo,
         GitCmd("branch", NoOpts, <<>>, <<>>), None, None)

get_list_of_tags(repo) ==
    Call("get_list_of_tags", repo, GitCmd("tag", NoOpts, <<>>, <<>>), None, None)

get_git_log(repo, branch, max_count) ==
    Call("get_git_log", repo,
         GitCmd("log", [NoOpts EXCEPT !.max_count = max_count],
                IF Truthy(branch) THEN <<branch>> ELSE <<>>, <<>>),
         None, None)

\* ------------------------------------------------------ server messages
\* id and src are the model's own: the order of enqueueing and the task that
\* enqueued.  A session-state message holds the live SessionState object, so
\* it has no content of its own until send_loop serializes it.
MsgServer(type, call, partial, id, src) ==
    [type |-> type, call |-> call, partial |-> partial, id |-> id, src |-> src]

\* ------------------------------------------------------ git.py: parsers
\* Text is a sequence of characters.
Digit == {"0", "1", "2", "3", "4", "5", "6", "7", "8", "9"}

DigitValue(c) ==
    CASE c = "0" -> 0 [] c = "1" -> 1 [] c = "2" -> 2 [] c = "3" -> 3
      [] c = "4" -> 4 [] c = "5" -> 5 [] c = "6" -> 6 [] c = "7" -> 7
      [] c = "8" -> 8 [] c = "9" -> 9

\* s[i:]
From(s, i) == SubSeq(s, i, Len(s))

\* s.startswith(t)
StartsWith(s, t) == Len(s) >= Len(t) /\ SubSeq(s, 1, Len(t)) = t

\* s.endswith(t)
EndsWith(s, t) ==
    Len(s) >= Len(t) /\ SubSeq(s, Len(s) - Len(t) + 1, Len(s)) = t

\* The value of a run of decimal digits.
RECURSIVE Decimal(_)
Decimal(s) ==
    IF s = <<>> THEN 0
    ELSE 10 * Decimal(SubSeq(s, 1, Len(s) - 1)) + DigitValue(s[Len(s)])

\* What \d+ takes at position i: the length of the longest run of digits
\* there (0: no match).
RECURSIVE DigitRun(_, _)
DigitRun(s, i) ==
    IF i <= Len(s) /\ s[i] \in Digit THEN 1 + DigitRun(s, i + 1) ELSE 0

ValueError == [ok |-> FALSE, val |-> <<>>]

\* int(group or 0)
group_or_0(g) == IF g = <<>> THEN 0 ELSE Decimal(g)

\* int(group or 1)
group_or_1(g) == IF g = <<>> THEN 1 ELSE Decimal(g)

\* re.match(r"@@ -(\d+)(?:,(\d+))? \+(\d+)(?:,(\d+))?", header): the match
\* is anchored at the start only.  Each \d+ is followed by a non-digit in
\* the pattern, or by nothing, so the greedy run is the only one that can
\* match; an optional group that can match is taken, and where the pattern
\* then fails, leaving the group out fails too (a space would have to stand
\* where the comma is).
parse_hunk_header(header) ==
    LET a == 5
        a_n == DigitRun(header, a)
        b == a + a_n + 1
        b_n == IF a + a_n <= Len(header) /\ header[a + a_n] = ","
               THEN DigitRun(header, b) ELSE 0
        sep == IF b_n > 0 THEN b + b_n ELSE a + a_n
        c == sep + 2
        c_n == DigitRun(header, c)
        d == c + c_n + 1
        d_n == IF c + c_n <= Len(header) /\ header[c + c_n] = ","
               THEN DigitRun(header, d) ELSE 0
        match == /\ StartsWith(header, <<"@", "@", " ", "-">>)
                 /\ a_n > 0
                 /\ StartsWith(From(header, sep), <<" ", "+">>)
                 /\ c_n > 0
    IN  IF match
        THEN [ok |-> TRUE,
              val |-> <<Decimal(SubSeq(header, a, a + a_n - 1)),
                        group_or_1(SubSeq(header, b, b + b_n - 1)),
                        Decimal(SubSeq(header, c, c + c_n - 1)),
                        group_or_1(SubSeq(header, d, d + d_n - 1))>>]
        ELSE ValueError

\* The whitespace of the texts at hand.
Whitespace == {" "}

\* s.lstrip()
RECURSIVE LStrip(_)
LStrip(s) ==
    IF s # <<>> /\ s[1] \in Whitespace THEN LStrip(Tail(s)) ELSE s

\* s.rstrip()
RECURSIVE RStrip(_)
RStrip(s) ==
    IF s # <<>> /\ s[Len(s)] \in Whitespace
    THEN RStrip(SubSeq(s, 1, Len(s) - 1)) ELSE s

\* s.strip()
Strip(s) == RStrip(LStrip(s))

\* s.find(t) + 1: where t first occurs in s, or 0.
Find(s, t) ==
    LET at == {i \in 1..(Len(s) - Len(t) + 1) :
                  SubSeq(s, i, i + Len(t) - 1) = t}
    IN  IF at = {} THEN 0 ELSE CHOOSE i \in at : \A j \in at : i <= j

\* s.split(t, 1), t occurring in s
Split1(s, t) ==
    <<SubSeq(s, 1, Find(s, t) - 1), From(s, Find(s, t) + Len(t))>>

\* s.count(c), c one character
Count(s, c) == Cardinality({i \in 1..Len(s) : s[i] = c})

\* s.split()[0], or the empty text if s.split() is empty.
FirstPart(s) ==
    LET t == LStrip(s)
        end == {i \in 1..Len(t) : t[i] \in Whitespace}
    IN  IF end = {} THEN t
        ELSE SubSeq(t, 1, (CHOOSE i \in end : \A j \in end : i <= j) - 1)

\* int(s) does not raise: an optional sign, then digits, single underscores
\* between digits allowed (s holds no whitespace here).
int_ok(s) ==
    LET body == IF s # <<>> /\ s[1] \in {"+", "-"} THEN Tail(s) ELSE s
    IN  /\ body # <<>>
        /\ \A i \in 1..Len(body) : body[i] \in Digit \cup {"_"}
        /\ body[1] \in Digit /\ body[Len(body)] \in Digit
        /\ \A i \in 1..(Len(body) - 1) : ~(body[i] = "_" /\ body[i + 1] = "_")

\* int(s), where it does not raise
int(s) ==
    LET body == IF s[1] \in {"+", "-"} THEN Tail(s) ELSE s
        digits == SelectSeq(body, LAMBDA c : c \in Digit)
    IN  IF s[1] = "-" THEN 0 - Decimal(digits) ELSE Decimal(digits)

\* FileChange(path, change_type), a field left unset being <<>> and one set
\* being <<value>>.
FileChange(path, change_type) ==
    [path |-> path, change_type |-> change_type, old_path |-> <<>>,
     mode_change |-> <<>>, is_binary |-> FALSE, additions |-> <<>>,
     deletions |-> <<>>, changes |-> <<>>]

\* A classification that looks at the suffixes before the arrow.
file_part_suffix_first(file_part) ==
    IF EndsWith(file_part, <<" ", "(", "n", "e", "w", ")">>)
    THEN FileChange(Strip(SubSeq(file_part, 1, Len(file_part) - 6)), "added")
    ELSE IF EndsWith(file_part, <<" ", "(", "g", "o", "n", "e", ")">>)
    THEN FileChange(Strip(SubSeq(file_part, 1, Len(file_part) - 7)), "deleted")
    ELSE IF Find(file_part, <<" ", "=", ">", " ">>) > 0
    THEN [FileChange(Strip(Split1(file_part, <<" ", "=", ">", " ">>)[2]), "renamed")
            EXCEPT !.old_path = <<Strip(Split1(file_part, <<" ", "=", ">", " ">>)[1])>>]
    ELSE FileChange(file_part, "modified")

\* parse_compact_summary_line: path and change type from the file part.
file_part_parsed(file_part) ==
    IF Find(file_part, <<" ", "=", ">", " ">>) > 0
    THEN [FileChange(Strip(Split1(file_part, <<" ", "=", ">", " ">>)[2]), "renamed")
            EXCEPT !.old_path = <<Strip(Split1(file_part, <<" ", "=", ">", " ">>)[1])>>]
    ELSE IF EndsWith(file_part, <<" ", "(", "n", "e", "w", ")">>)
    THEN FileChange(Strip(SubSeq(file_part, 1, Len(file_part) - 6)), "added")
    ELSE IF EndsWith(file_part, <<" ", "(", "g", "o", "n", "e", ")">>)
    THEN FileChange(Strip(SubSeq(file_part, 1, Len(file_part) - 7)), "deleted")
    ELSE FileChange(file_part, "modified")

\* parse_compact_summary_line: the counts from the changes part.
changes_part_parsed(file_change, changes_part) ==
    IF StartsWith(changes_part, <<"B", "i", "n">>)
    THEN [file_change EXCEPT !.is_binary = TRUE]
    ELSE IF FirstPart(changes_part) # <<>> /\ int_ok(FirstPart(changes_part))
    THEN [file_change EXCEPT
            !.additions = <<Count(changes_part, "+")>>,
            !.deletions = <<Count(changes_part, "-")>>,
            !.changes = <<int(FirstPart(changes_part))>>]
    ELSE file_change

\* The return value None is <<>>, a FileChange fc is <<fc>>.
parse_compact_summary_line(line) ==
    LET stripped == Strip(line)
        halves == Split1(stripped, <<"|">>)
    IN  IF stripped = <<>> THEN <<>>
        ELSE IF Find(stripped, <<"|">>) = 0 THEN <<>>
        ELSE <<changes_part_parsed(file_part_parsed(Strip(halves[1])),
                                   Strip(halves[2]))>>

\* Lines of git diff --compact-summary, piece by piece: the indentation,
\* the file part, the bar and the changes part.
SummaryLinePieces ==
    <<{<<" ">>, <<>>},
      {<<"a">>,
       <<"b", "i", "n", "a", "r", "y", ".", "b", "i", "n">>,
       <<"a", " ", "=", ">", " ", "b">>,
       <<"a", " ", "(", "n", "e", "w", ")">>,
       <<"a", " ", "(", "g", "o", "n", "e", ")">>,
       <<"a", " ", "=", ">", " ", "b", " ", "(", "n", "e", "w", ")">>,
       <<"b", " ", "(", "g", "o", "n", "e", ")", " ", "(", "n", "e", "w", ")">>,
       <<"a", " ", "=", ">">>,
       <<"(", "n", "e", "w", ")">>},
      {<<" ", "|", " ">>, <<"|">>, <<" ">>},
      {<<"1", "0", " ", "+", "+", "-", "-">>,
       <<"B", "i", "n", " ", "0", " ", "-", ">", " ", "1", "0", "2", "4", " ", "b", "y", "t", "e", "s">>,
       <<"0">>,
       <<"x", " ", "+", "-">>,
       <<>>,
       <<"-", "1", " ", "-">>,
       <<"1", "_", "0", " ", "|", " ", "+">>}>>

\* DiffFile(file_path, change_type)
DiffFile(file_path, change_type) ==
    [file_path |-> file_path, change_type |-> change_type, hunks |-> <<>>]

\* DiffHunk(header, old_start, old_count, new_start, new_count), from what
\* parse_hunk_header returned
DiffHunk(header, parsed) ==
    [header |-> header, old_start |-> parsed[1], old_count |-> parsed[2],
     new_start |-> parsed[3], new_count |-> parsed[4], content |-> <<>>,
     added_lines |-> 0, removed_lines |-> 0]

\* The fold before the first line: no file, no open file, no open hunk
\* (None is <<>>, an object x is <<x>>), nothing raised.
DiffFold0 ==
    [files |-> <<>>, current_file |-> <<>>, current_hunk |-> <<>>,
     raised |-> FALSE]

\* current_file.hunks.append(current_hunk), if there are both.
HunkClosed(acc) ==
    IF acc.current_hunk # <<>> /\ acc.current_file # <<>>
    THEN <<[acc.current_file[1] EXCEPT
              !.hunks = Append(@, acc.current_hunk[1])]>>
    ELSE acc.current_file

\* The path of the open file, set from a marker line if it is not yet set.
file_path_set(file, line) ==
    IF file.file_path = <<>>
    THEN IF StartsWith(line, <<"+", "+", "+", " ", "b", "/">>)
         THEN [file EXCEPT !.file_path = From(line, 7)]
         ELSE IF StartsWith(line, <<"-", "-", "-", " ", "a", "/">>)
         THEN [file EXCEPT !.file_path = From(line, 7)]
         ELSE file
    ELSE file

\* One turn of the loop over stdout.splitlines().
DiffLine(acc, line) ==
    IF acc.raised THEN acc
    ELSE IF StartsWith(line, <<"d", "i", "f", "f", " ", "-", "-", "g", "i", "t">>)
    THEN [acc EXCEPT
            !.files = @ \o HunkClosed(acc),
            !.current_file = <<DiffFile(<<>>, "modified")>>,
            !.current_hunk = <<>>]
    ELSE IF StartsWith(line, <<"n", "e", "w", " ", "f", "i", "l", "e", " ", "m", "o", "d", "e">>)
    THEN IF acc.current_file # <<>>
         THEN [acc EXCEPT !.current_file[1].change_type = "added"]
         ELSE acc
    ELSE IF StartsWith(line, <<"d", "e", "l", "e", "t", "e", "d", " ", "f", "i", "l", "e", " ", "m", "o", "d", "e">>)
    THEN IF acc.current_file # <<>>
         THEN [acc EXCEPT !.current_file[1].change_type = "deleted"]
         ELSE acc
    ELSE IF StartsWith(line, <<"-", "-", "-", " ">>) \/ StartsWith(line, <<"+", "+", "+", " ">>)
    THEN IF acc.current_file # <<>>
         THEN [acc EXCEPT !.current_file[1] = file_path_set(@, line)]
         ELSE acc
    ELSE IF StartsWith(line, <<"@", "@">>)
    THEN IF parse_hunk_header(Strip(line)).ok
         THEN [acc EXCEPT
                 !.current_file = HunkClosed(acc),
                 !.current_hunk =
                    <<DiffHunk(Strip(line), parse_hunk_header(Strip(line)).val)>>]
         ELSE [acc EXCEPT !.current_file = HunkClosed(acc), !.raised = TRUE]
    ELSE IF acc.current_hunk # <<>>
    THEN [acc EXCEPT
            !.current_hunk[1].content = Append(@, line),
            !.current_hunk[1].added_lines =
               IF StartsWith(line, <<"+">>) /\ ~StartsWith(line, <<"+", "+", "+">>)
               THEN @ + 1 ELSE @,
            !.current_hunk[1].removed_lines =
               IF ~(StartsWith(line, <<"+">>) /\ ~StartsWith(line, <<"+", "+", "+">>))
                  /\ StartsWith(line, <<"-">>) /\ ~StartsWith(line, <<"-", "-", "-">>)
               THEN @ + 1 ELSE @]
    ELSE acc

\* The loop over the lines.
RECURSIVE DiffFold(_)
DiffFold(lines) ==
    IF lines = <<>> THEN DiffFold0
    ELSE DiffLine(DiffFold(SubSeq(lines, 1, Len(lines) - 1)), lines[Len(lines)])

\* get_git_diff and get_commit_diff from stdout.splitlines() on: the files
\* of the GitDiff returned, or the ValueError of parse_hunk_header.
get_diff_files(lines) ==
    IF DiffFold(lines).raised THEN ValueError
    ELSE [ok |-> TRUE,
          val |-> DiffFold(lines).files \o
                     HunkClosed(DiffFold(lines))]

\* The lines of git's unified diff: any of these may be the next line.
DiffLines ==
    {<<<<"d", "i", "f", "f", " ", "-", "-", "g", "i", "t", " ", "a", "/", "x", " ", "b", "/", "y">>>>,
     <<<<"n", "e", "w", " ", "f", "i", "l", "e", " ", "m", "o", "d", "e", " ", "1", "0", "0", "6", "4", "4">>>>,
     <<<<"d", "e", "l", "e", "t", "e", "d", " ", "f", "i", "l", "e", " ", "m", "o", "d", "e", " ", "1", "0", "0", "6", "4", "4">>>>,
     <<<<"-", "-", "-", " ", "a", "/", "x">>>>,
     <<<<"+", "+", "+", " ", "b", "/", "y">>>>,
     <<<<"-", "-", "-", " ", "/", "d", "e", "v", "/", "n", "u", "l", "l">>>>,
     <<<<"+", "+", "+", " ", "/", "d", "e", "v", "/", "n", "u", "l", "l">>>>,
     <<<<"@", "@", " ", "-", "1", " ", "+", "1", ",", "2", " ", "@", "@">>>>,
     <<<<"@", "@", " ", "b", "a", "d">>>>,
     <<<<"+", "n">>>>,
     <<<<"-", "o">>>>}

\* Hunk headers, well-formed and not, piece by piece: the opening, the old
\* start, the old count, the separator, the new start, the new count and
\* what follows.
HunkHeaderPieces ==
    <<{<<"@", "@", " ", "-">>, <<"@", "@", " ", "+">>, <<"@", " ", "-">>},
      {<<"1", "0">>, <<"1">>, <<>>},
      {<<>>, <<",", "7">>, <<",", "0">>, <<",">>},
      {<<" ", "+">>, <<" ">>},
      {<<"1", "2">>, <<"1">>, <<>>},
      {<<>>, <<",", "9">>, <<",", "2">>, <<",">>},
      {<<>>, <<" ", "@", "@">>, <<" ", "@", "@", " ", "f", "(", "1", ",", "2", ")">>}>>

\* ------------------------------------------------------------ variables
VARIABLES
    state,            \* the connection's SessionState
    ev_state_change,  \* asyncio.Event
    q_rx,             \* inbound queue
    q_tx,             \* outbound queue
    closed,           \* the task group has failed and the socket is closed
    ws_close,         \* the status websocket.close was called with, if it was
    registry,         \* the uids that qs_tx and qs_rx hold queues for
    init_sent,        \* send_init_data has run
    running,          \* the task that holds the thread without having suspended
    n_rx,             \* messages read from the transport so far
    r_pc,             \* recv_loop's suspension point
    r_msg,            \* the decoded message it holds while q_rx.put is blocked
    r_text,           \* the frame decode_client_msg failed on, if any
    n_done,           \* client messages whose handler has completed
    n_enq,            \* server messages enqueued so far
    d_pc,             \* handle_client_msg_loop's suspension point
    d_msg,            \* the message its handler is working on
    d_call,           \* the gateway call it awaits
    w_pc,             \* handle_state_changes_loop's suspension point
    state_prev,       \* its snapshot
    w_call,           \* the gateway call it awaits
    buffer,           \* send_loop's buffer
    timeout,          \* send_loop's timeout flag
    s_pc,             \* send_loop's suspension point
    sent,             \* history: the messages written to the transport, batch
                      \* after batch (their serialized form is in buffer)
    pass,             \* history: the change-watcher's current or last pass
    burst,            \* history: the current burst of mutating commands
    scen,             \* history: set-commit-a followed by set-commit-b
    tx_burst,         \* history: a back-to-back run of more than MaxChunk events
    text,             \* the output of git handed to a parser, as far as written
    stage,            \* the pieces of it written so far
    result            \* what the parser made of it, once it has run

vars == <<state, ev_state_change, q_rx, q_tx, closed, ws_close, registry,
          init_sent, running, n_rx, r_pc, r_msg, r_text, n_done, n_enq, d_pc, d_msg, d_call, w_pc,
          state_prev, w_call, buffer, timeout, s_pc, sent, pass, burst,
          scen, tx_burst, text, stage, result>>

\* ------------------------------------------------------------- queues
\* A queue that hands out its newest entry first.
QueueGetNewest(q) == <<q[Len(q)], SubSeq(q, 1, Len(q) - 1)>>

\* Queue.get(): the oldest entry, and the queue without it.
QueueGet(q) == <<Head(q), Tail(q)>>

\* Queue.put(x)
QueuePut(q, x) == Append(q, x)

\* q_tx.put of each of items (<<type, call, partial>>) in turn, by task src.
Enq(q, items, src, n) ==
    q \o [i \in 1..Len(items) |->
            MsgServer(items[i][1], items[i][2], items[i][3], n + i, src)]

\* ------------------------------------------------------- send_repo_data
\* send_repo_data with the echo put first.
send_repo_data_echo_first(repo, commits) ==
    << <<"session-state", NoCall, FALSE>>,
       <<"branches", get_list_of_branches(repo), FALSE>>,
       <<"tags", Slice(get_list_of_tags(repo), 50), FALSE>>,
       <<"commits", commits, FALSE>> >>

\* The four messages send_repo_data puts on q_tx, commits being its
\* get_git_log call.
send_repo_data(repo, commits) ==
    << <<"branches", get_list_of_branches(repo), FALSE>>,
       <<"tags", Slice(get_list_of_tags(repo), 50), FALSE>>,
       <<"commits", commits, FALSE>>,
       <<"session-state", NoCall, FALSE>> >>

\* ------------------------------------------- send_diff_summary, send_diff
\* send_diff_summary with its two branches in the other order: the
\* single-commit summary whenever endpoint A is set.
send_diff_summary_single_first(st) ==
    IF Truthy(st.repo) /\ Truthy(st.commit_a)
    THEN git_diff_compact_summary(st.repo, st.commit_a, None)
    ELSE NoCall

send_diff_summary(st) ==
    IF Truthy(st.repo) /\ Truthy(st.commit_a) /\ Truthy(st.commit_b)
    THEN git_diff_compact_summary(st.repo, st.commit_a, st.commit_b)
    ELSE IF Truthy(st.repo) /\ Truthy(st.commit_a)
    THEN git_diff_compact_summary(st.repo, st.commit_a, None)
    ELSE NoCall

\* paths is the list handed to git.py ("if paths:" drops None and [] alike).
send_diff(paths, st) ==
    IF Truthy(st.repo) /\ Truthy(st.commit_a) /\ Truthy(st.commit_b)
    THEN get_git_diff(st.repo, st.commit_a, st.commit_b, st.git_flags, paths)
    ELSE IF Truthy(st.repo) /\ Truthy(st.commit_a)
    THEN get_commit_diff(st.repo, st.commit_a, st.git_flags, paths)
    ELSE NoCall

\* ---------------------------------------------------- handle_client_msg
\* A selection that leaves the endpoints as they are.
repo_select_keeps_endpoints(st, repo) == [st EXCEPT !.repo = repo]

\* case MsgRepoSelect(repo), up to its first await.
repo_select(st, repo) ==
    IF st.repo # repo
    THEN [st EXCEPT !.commit_a = None, !.commit_b = None, !.repo = repo]
    ELSE st

\* A decrement that does not look at the count.
context_dec_unguarded(n) == n - 1

\* case MsgContextDec(): context_lines after the command.
context_dec(n) == IF n > 0 THEN n - 1 ELSE n

\* The session state once the handler has run up to its first await (or to
\* its end, when it awaits nothing).
handle_client_msg_state(msg, st) ==
    CASE msg.type = "set-commit-a" -> [st EXCEPT !.commit_a = msg.arg]
      [] msg.type = "reset-commit-a" -> [st EXCEPT !.commit_a = None]
      [] msg.type = "set-commit-b" -> [st EXCEPT !.commit_b = msg.arg]
      [] msg.type = "reset-commit-b" -> [st EXCEPT !.commit_b = None]
      [] msg.type = "swap-commits" ->
            [st EXCEPT !.commit_a = st.commit_b, !.commit_b = st.commit_a]
      [] msg.type = "context-inc" ->
            [st EXCEPT !.git_flags.context_lines = @ + 1]
      [] msg.type = "context-dec" ->
            [st EXCEPT !.git_flags.context_lines = context_dec(@)]
      [] msg.type = "context-reset" ->
            IF st.git_flags.context_lines # 3
            THEN [st EXCEPT !.git_flags.context_lines = 3]
            ELSE st
      [] msg.type = "ignore-all-space" ->
            [st EXCEPT !.git_flags.ignore_all_space = msg.value]
      [] msg.type = "repo-select" -> repo_select(st, msg.arg)
      [] msg.type = "branch-select" ->
            IF st.branch # msg.arg THEN [st EXCEPT !.branch = msg.arg] ELSE st
      [] msg.type = "open-path" ->
            IF msg.arg \notin Range(st.open_paths)
            THEN [st EXCEPT !.open_paths = Append(@, msg.arg)]
            ELSE st
      [] msg.type = "close-path" ->
            IF msg.arg \in Range(st.open_paths)
            THEN [st EXCEPT !.open_paths = Remove(@, msg.arg)]
            ELSE st
      [] msg.type = "set-open-paths" -> [st EXCEPT !.open_paths = msg.paths]
      [] OTHER -> st

\* Whether a handler that awaits no gateway call sets ev_state_change.
handle_client_msg_sets(msg, st) ==
    CASE msg.type \in {"set-commit-a", "reset-commit-a", "set-commit-b",
                       "reset-commit-b", "swap-commits", "context-inc",
                       "ignore-all-space", "open-path", "set-open-paths"}
            -> TRUE
      [] msg.type = "context-dec" -> st.git_flags.context_lines > 0
      [] msg.type = "context-reset" -> st.git_flags.context_lines # 3
      [] msg.type = "branch-select" -> st.branch # msg.arg
      [] msg.type = "close-path" -> msg.arg \in Range(st.open_paths)
      [] OTHER -> FALSE

\* A handler that leaves get-diff to the change-watcher.
handle_client_msg_await_deferred(msg, st) ==
    CASE msg.type = "repo-select" ->
            IF st.repo # msg.arg THEN "get_current_branch" ELSE "get"
      [] msg.type = "branch-select" ->
            IF st.branch # msg.arg /\ Truthy(st.repo)
            THEN "get_git_log" ELSE "get"
      [] OTHER -> "get"

\* The suspension point the handler reaches first: "get" when it runs to
\* its end without awaiting a gateway call.
handle_client_msg_await(msg, st) ==
    CASE msg.type = "get-diff" ->
            IF send_diff(msg.paths, st) # NoCall THEN "send_diff" ELSE "get"
      [] msg.type = "repo-select" ->
            IF st.repo # msg.arg THEN "get_current_branch" ELSE "get"
      [] msg.type = "branch-select" ->
            IF st.branch # msg.arg /\ Truthy(st.repo)
            THEN "get_git_log" ELSE "get"
      [] OTHER -> "get"

\* The gateway call awaited at that point.
handle_client_msg_call(msg, st) ==
    CASE msg.type = "get-diff" -> send_diff(msg.paths, st)
      [] msg.type = "repo-select" -> get_list_of_branches(msg.arg)
      [] msg.type = "branch-select" -> get_git_log(st.repo, msg.arg, 25)
      [] OTHER -> NoCall

\* ------------------------------------------------------------ history
\* The bookkeeping below records what happened; no action reads it to decide
\* what the program does.
WatcherIdle == w_pc = "wait" /\ ~ev_state_change

\* A burst starts with a signalling command that finds the watcher idle; its
\* window stays open until the watcher's debounce sleep next ends (the sleep
\* starts after the burst's first command and lasts as long as the window).
\* A signalling command after the window, before the watcher is idle again,
\* does not belong to the burst.
BurstSignal ==
    IF burst.open THEN [burst EXCEPT !.n = @ + 1]
    ELSE IF WatcherIdle
    THEN [open |-> TRUE, n |-> 1, echoes |-> 0, late |-> FALSE]
    ELSE [burst EXCEPT !.late = TRUE]

\* A pass is disturbed when the session state changes while the watcher
\* awaits a gateway call.
PassDisturb(st) ==
    IF w_pc \in {"send_diff_summary", "send_diff"} /\ st # state
    THEN [pass EXCEPT !.quiet = FALSE]
    ELSE pass

\* set-commit-a(A) applied to an idle session with a repository and no
\* endpoints, then set-commit-b(B), and nothing after.
ScenStep(msg) ==
    IF /\ scen.phase = "none"
       /\ msg.type = "set-commit-a"
       /\ Truthy(state.repo) /\ state.commit_a = None /\ state.commit_b = None
       /\ WatcherIdle
    THEN [phase |-> "a", a |-> msg.arg, b |-> None, base |-> n_enq]
    ELSE IF scen.phase = "a" /\ msg.type = "set-commit-b"
    THEN [scen EXCEPT !.phase = "ab", !.b = msg.arg]
    ELSE IF scen.phase \in {"a", "ab"}
    THEN [scen EXCEPT !.phase = "void"]
    ELSE scen

\* --------------------------------------------------------------- Init
NoEntry == [msg |-> Plain("none"), seq |-> 0]

Init ==
    /\ state = SessionState
    /\ ev_state_change = FALSE
    /\ q_rx = <<>>
    /\ q_tx = <<>>
    /\ closed = FALSE
    /\ ws_close = <<>>
    /\ registry = {uid}
    /\ init_sent = FALSE
    /\ running = "none"
    /\ n_rx = 0
    /\ r_pc = "receive_text"
    /\ r_msg = NoEntry
    /\ r_text = <<>>
    /\ n_done = 0
    /\ n_enq = 0
    /\ d_pc = "get"
    /\ d_msg = NoEntry
    /\ d_call = NoCall
    /\ w_pc = "wait"
    /\ state_prev = SessionState
    /\ w_call = NoCall
    /\ buffer = <<>>
    /\ timeout = FALSE
    /\ s_pc = "wait"
    /\ sent = <<>>
    /\ pass = [first |-> 0, at |-> SessionState, quiet |-> TRUE]
    /\ burst = [open |-> FALSE, n |-> 0, echoes |-> 0, late |-> FALSE]
    /\ scen = [phase |-> "none", a |-> None, b |-> None, base |-> 0]
    /\ tx_burst = [first |-> 0, hit |-> FALSE]
    /\ text = <<>>
    /\ stage = 0
    /\ result = <<>>

pvars == <<text, stage, result>>
cvars == <<closed, ws_close, registry>>
rvars == <<n_rx, r_pc, r_msg, r_text>>
dvars == <<d_pc, d_msg, d_call, n_done>>
wvars == <<w_pc, state_prev, w_call>>
svars == <<buffer, timeout, s_pc, sent>>
hvars == <<pass, burst, scen, tx_burst>>

\* Tasks that run on after the task group has failed.
LiveAfterFailure(task) == init_sent /\ running \in {"none", task}

\* Tasks start in the order the task group created them: send_init_data runs
\* to its end before any other task runs.
Live(task) == ~closed /\ init_sent /\ running \in {"none", task}

\* ------------------------------------------------------ send_init_data
send_init_data ==
    /\ ~closed /\ ~init_sent
    /\ init_sent' = TRUE
    /\ q_tx' = QueuePut(q_tx, MsgServer("repos", NoCall, FALSE, n_enq + 1, "init"))
    /\ n_enq' = n_enq + 1
    /\ UNCHANGED <<state, ev_state_change, q_rx, cvars, pvars, running,
                   rvars, dvars, wvars, svars, hvars>>

\* ------------------------------------------------------------ recv_loop
\* One message read from the transport, decoded and put on q_rx.
Receive(M, max) ==
    /\ Live("recv")
    /\ r_pc = "receive_text"
    /\ n_rx < max
    /\ Len(q_rx) < q_maxsize
    /\ \E m \in M :
          q_rx' = QueuePut(q_rx, [msg |-> m, seq |-> n_rx + 1])
    /\ n_rx' = n_rx + 1
    /\ UNCHANGED <<state, ev_state_change, q_tx, cvars, init_sent, pvars, running,
                   r_pc, r_msg, r_text, n_enq, dvars, wvars, svars, hvars>>

Recv(M) == Receive(M, MaxCmds)

recv_loop == Recv(MsgClient)

recv_loop_few == Recv(MsgClientFew)

recv_loop_local == Receive(MsgLocal, MaxOps)

recv_loop_get_diff == Receive(MsgClientGetDiff, MaxOps)

recv_loop_resync == Receive(MsgClientResync, MaxOps)

recv_loop_batch == Recv(MsgClientBatch)

\* A queue that takes whatever is put.
never_full(q, maxsize) == FALSE

\* asyncio.Queue.full()
full(q, maxsize) == Len(q) >= maxsize

\* recv_loop on a queue of capacity MaxQueue: the message read and decoded
\* is put on q_rx, or, the queue being full, held while put() suspends.
recv_loop_backpressure ==
    /\ Live("recv")
    /\ r_pc = "receive_text"
    /\ n_rx < MaxOps
    /\ \E m \in MsgClientGetDiff :
          LET entry == [msg |-> m, seq |-> n_rx + 1]
          IN  IF full(q_rx, MaxQueue)
              THEN /\ r_pc' = "put"
                   /\ r_msg' = entry
                   /\ UNCHANGED q_rx
              ELSE /\ q_rx' = QueuePut(q_rx, entry)
                   /\ UNCHANGED <<r_pc, r_msg>>
    /\ n_rx' = n_rx + 1
    /\ UNCHANGED <<state, ev_state_change, q_tx, cvars, init_sent, pvars, running,
                   r_text, n_enq, dvars, wvars, svars, hvars>>

\* put() resumes once q_rx has room: the held message goes on the queue and
\* the loop is back at receive_text().
q_rx_put_resumes ==
    /\ Live("recv")
    /\ r_pc = "put"
    /\ ~full(q_rx, MaxQueue)
    /\ q_rx' = QueuePut(q_rx, r_msg)
    /\ r_pc' = "receive_text"
    /\ r_msg' = NoEntry
    /\ UNCHANGED <<state, ev_state_change, q_tx, cvars, init_sent, pvars, running,
                   n_rx, r_text, n_enq, dvars, wvars, svars, hvars>>

\* ------------------------------------------------ handle_client_msg_loop
\* More than MaxChunk events put back to back on an empty outbound path:
\* first is the id of the first of them.
TxBurst(k) ==
    IF /\ tx_burst.first = 0 /\ k > MaxChunk
       /\ q_tx = <<>> /\ buffer = <<>> /\ s_pc = "wait"
    THEN [first |-> n_enq + 1, hit |-> FALSE]
    ELSE tx_burst

\* hit: a batch made of exactly the run's first MaxChunk events was written.
TxBurstBatch(batch) ==
    IF /\ tx_burst.first > 0
       /\ Len(batch) = MaxChunk
       /\ \A i \in 1..MaxChunk : batch[i].msg.id = tx_burst.first + i - 1
    THEN [tx_burst EXCEPT !.hit = TRUE]
    ELSE tx_burst

\* The handler has run to its end: the loop is back at q_rx.get(), which
\* returns without suspending while q_rx holds a message.
DispatchDone(q) ==
    /\ d_pc' = "get" /\ d_msg' = NoEntry /\ d_call' = NoCall
    /\ n_done' = n_done + 1
    /\ running' = IF q # <<>> THEN "dispatch" ELSE "none"

\* q_rx.get() and the handler up to its first gateway call, or to its end.
handle_client_msg_loop ==
    /\ Live("dispatch")
    /\ d_pc = "get" /\ q_rx # <<>>
    /\ LET got == QueueGet(q_rx)
           m == got[1].msg
           st == handle_client_msg_state(m, state)
           pc == handle_client_msg_await(m, state)
           sets == handle_client_msg_sets(m, state)
       IN  /\ q_rx' = got[2]
           /\ state' = st
           /\ scen' = ScenStep(m)
           /\ pass' = PassDisturb(st)
           /\ IF pc = "get"
              THEN /\ ev_state_change' = (ev_state_change \/ sets)
                   /\ burst' = IF sets THEN BurstSignal ELSE burst
                   /\ DispatchDone(got[2])
              ELSE /\ d_pc' = pc
                   /\ d_msg' = got[1]
                   /\ d_call' = handle_client_msg_call(m, state)
                   /\ running' = "none"
                   /\ UNCHANGED <<ev_state_change, burst, n_done>>
    /\ UNCHANGED <<q_tx, cvars, init_sent, pvars, rvars, n_enq, wvars, svars, tx_burst>>

\* get-diff: the diff returns and is put on q_tx.
get_diff_returns ==
    /\ Live("dispatch")
    /\ d_pc = "send_diff"
    /\ q_tx' = Enq(q_tx, <<<<"diff", d_call, d_msg.msg.has_paths>>>>,
                   "dispatch", n_enq)
    /\ n_enq' = n_enq + 1
    /\ DispatchDone(q_rx)
    /\ UNCHANGED <<state, ev_state_change, q_rx, cvars, init_sent, pvars, rvars,
                   wvars, svars, hvars>>

\* repo-select: get_current_branch returns the checked-out branch; the
\* handler goes on to send_repo_data's three gateway calls (that nothing
\* separates, so they are one suspension here).
get_current_branch_returns ==
    /\ Live("dispatch")
    /\ d_pc = "get_current_branch"
    /\ \E b \in CheckedOut :
          /\ state' = [state EXCEPT !.branch = b]
          /\ pass' = PassDisturb([state EXCEPT !.branch = b])
    /\ d_pc' = "send_repo_data"
    /\ d_call' = get_git_log(d_msg.msg.arg, None, 25)
    /\ running' = "none"
    /\ UNCHANGED <<ev_state_change, q_rx, q_tx, cvars, init_sent, pvars, rvars,
                   n_done, n_enq, d_msg, wvars, svars, burst, scen, tx_burst>>

\* repo-select: branches, tags and commits are in; the four messages are
\* put on q_tx and the change is signalled.
send_repo_data_returns ==
    /\ Live("dispatch")
    /\ d_pc = "send_repo_data"
    /\ q_tx' = Enq(q_tx, send_repo_data(d_msg.msg.arg, d_call),
                   "dispatch", n_enq)
    /\ n_enq' = n_enq + 4
    /\ tx_burst' = TxBurst(4)
    /\ ev_state_change' = TRUE
    /\ burst' = BurstSignal
    /\ DispatchDone(q_rx)
    /\ UNCHANGED <<state, q_rx, cvars, init_sent, pvars, rvars, wvars, svars,
                   pass, scen>>

\* branch-select: the log returns, is put on q_tx, the change is signalled.
get_git_log_returns ==
    /\ Live("dispatch")
    /\ d_pc = "get_git_log"
    /\ q_tx' = Enq(q_tx, <<<<"commits", d_call, FALSE>>>>, "dispatch", n_enq)
    /\ n_enq' = n_enq + 1
    /\ ev_state_change' = TRUE
    /\ burst' = BurstSignal
    /\ DispatchDone(q_rx)
    /\ UNCHANGED <<state, q_rx, cvars, init_sent, pvars, rvars, wvars, svars,
                   pass, scen, tx_burst>>

\* The task group is torn down: every task stops, the socket is closed
\* with status 1011 and the connection's queues leave the registries.
TaskGroupFails ==
    /\ closed' = TRUE
    /\ ws_close' = <<1011>>
    /\ registry' = registry \ {uid}
    /\ UNCHANGED <<state, ev_state_change, q_rx, q_tx, init_sent, pvars, running,
                   rvars, n_enq, dvars, wvars, svars, hvars>>

\* A gateway call of the dispatch task fails (git exits non-zero, or no
\* branch is checked out).
handle_client_msg_fails ==
    /\ Live("dispatch")
    /\ d_pc # "get"
    /\ TaskGroupFails

\* -------------------------------------------- handle_state_changes_loop
\* The test that decides between a full resync and the newly opened paths.
state_changed(st, prev) ==
    \/ st.repo # prev.repo
    \/ st.branch # prev.branch
    \/ st.commit_a # prev.commit_a
    \/ st.commit_b # prev.commit_a

\* set(state.open_paths) - set(state_prev.open_paths)
new_paths(st, prev) == Range(st.open_paths) \ Range(prev.open_paths)

\* ev_state_change.clear(), then asyncio.sleep(0.1).
WatcherSleeps ==
    /\ ev_state_change' = FALSE
    /\ w_pc' = "sleep"
    /\ w_call' = NoCall

\* send_diff(paths, state) by the watcher: the gateway call when there is
\* one to make, else on to the end of the pass.
WatcherSendDiff(paths) ==
    IF send_diff(paths, state) # NoCall
    THEN /\ w_pc' = "send_diff"
         /\ w_call' = send_diff(paths, state)
         /\ UNCHANGED ev_state_change
    ELSE WatcherSleeps

\* One pass from the return of ev_state_change.wait(), with snapshot prev,
\* to the pass's first suspension.
WatcherPass(prev, b) ==
    /\ state_prev' = prev
    /\ q_tx' = Enq(q_tx, <<<<"session-state", NoCall, FALSE>>>>, "watcher", n_enq)
    /\ n_enq' = n_enq + 1
    /\ pass' = [first |-> n_enq + 1, at |-> state, quiet |-> TRUE]
    /\ burst' = [b EXCEPT !.echoes = @ + 1]
    /\ IF state_changed(state, prev)
       THEN IF send_diff_summary(state) # NoCall
            THEN /\ w_pc' = "send_diff_summary"
                 /\ w_call' = send_diff_summary(state)
                 /\ UNCHANGED ev_state_change
            ELSE IF state.open_paths # <<>>
            THEN WatcherSendDiff(state.open_paths)
            ELSE WatcherSleeps
       ELSE IF new_paths(state, prev) # {}
            THEN \E ps \in Orders(new_paths(state, prev)) : WatcherSendDiff(ps)
            ELSE WatcherSleeps
    /\ UNCHANGED <<state, q_rx, cvars, init_sent, pvars, running, rvars, dvars,
                   svars, scen, tx_burst>>

\* The watcher, suspended in ev_state_change.wait(), is woken by a signal.
handle_state_changes_loop ==
    /\ Live("watcher")
    /\ w_pc = "wait" /\ ev_state_change
    /\ WatcherPass(state_prev, burst)

\* The debounce sleep ends: the snapshot is taken and, the signal being set
\* already, wait() returns at once; else the watcher suspends in wait().
debounce_ends ==
    /\ Live("watcher")
    /\ w_pc = "sleep"
    /\ IF ev_state_change
       THEN WatcherPass(state, [burst EXCEPT !.open = FALSE])
       ELSE /\ state_prev' = state
            /\ w_pc' = "wait"
            /\ burst' = [burst EXCEPT !.open = FALSE]
            /\ UNCHANGED <<state, ev_state_change, q_rx, q_tx, cvars,
                           init_sent, pvars, running, rvars, n_enq, dvars, w_call,
                           svars, pass, scen, tx_burst>>

\* The summary returns and is put on q_tx; then the diff of the open paths.
send_diff_summary_returns ==
    /\ Live("watcher")
    /\ w_pc = "send_diff_summary"
    /\ q_tx' = Enq(q_tx, <<<<"diff-summary", w_call, FALSE>>>>, "watcher", n_enq)
    /\ n_enq' = n_enq + 1
    /\ IF state.open_paths # <<>>
       THEN WatcherSendDiff(state.open_paths)
       ELSE WatcherSleeps
    /\ UNCHANGED <<state, q_rx, cvars, init_sent, pvars, running, rvars, dvars,
                   state_prev, svars, hvars>>

\* The diff returns and is put on q_tx: the pass ends.
send_diff_returns ==
    /\ Live("watcher")
    /\ w_pc = "send_diff"
    /\ q_tx' = Enq(q_tx, <<<<"diff", w_call, TRUE>>>>, "watcher", n_enq)
    /\ n_enq' = n_enq + 1
    /\ WatcherSleeps
    /\ UNCHANGED <<state, q_rx, cvars, init_sent, pvars, running, rvars, dvars,
                   state_prev, svars, hvars>>

\* A gateway call of the watcher fails.
handle_state_changes_fails ==
    /\ Live("watcher")
    /\ w_pc \in {"send_diff_summary", "send_diff"}
    /\ TaskGroupFails

\* ------------------------------------------------------------ send_loop
\* asdict(msg): a session-state message is serialized from the SessionState
\* object as it is now.
asdict(msg) ==
    [msg |-> msg,
     state |-> IF msg.type = "session-state" THEN <<state>> ELSE <<>>]

\* A buffer that takes the new entry at its front.
buffer_push_front(buf, x) == <<x>> \o buf

\* buffer.append(asdict(msg))
buffer_append(buf, x) == Append(buf, x)

\* A flush test that knows the count only.
flush_on_count(buf, tmo) == Len(buf) >= MaxChunk

\* The flush test after a wait.
flush_due(buf, tmo) == Len(buf) >= MaxChunk \/ (tmo /\ buf # <<>>)

\* wait_for(q_tx.get(), max_delay) returns a message.
send_loop ==
    /\ Live("send")
    /\ s_pc = "wait" /\ q_tx # <<>>
    /\ LET got == QueueGet(q_tx)
           buf == buffer_append(buffer, asdict(got[1]))
       IN  /\ q_tx' = got[2]
           /\ buffer' = buf
           /\ IF flush_due(buf, timeout)
              THEN s_pc' = "send_text" /\ running' = "none"
              ELSE /\ s_pc' = "wait"
                   /\ running' = IF got[2] # <<>> THEN "send" ELSE "none"
    /\ UNCHANGED <<state, ev_state_change, q_rx, cvars, init_sent, pvars, rvars,
                   n_enq, dvars, wvars, timeout, sent, hvars>>

\* wait_for times out: q_tx stayed empty for max_delay.
send_loop_timeout ==
    /\ Live("send")
    /\ s_pc = "wait" /\ q_tx = <<>>
    /\ timeout' = TRUE
    /\ s_pc' = IF flush_due(buffer, TRUE) THEN "send_text" ELSE "wait"
    /\ UNCHANGED <<state, ev_state_change, q_rx, q_tx, cvars, init_sent, pvars,
                   running, rvars, n_enq, dvars, wvars, buffer, sent, hvars>>

\* websocket.send_text returns: the batch is on the transport.
send_text_returns ==
    /\ Live("send")
    /\ s_pc = "send_text"
    /\ sent' = sent \o [i \in 1..Len(buffer) |-> buffer[i].msg]
    /\ tx_burst' = TxBurstBatch(buffer)
    /\ buffer' = <<>>
    /\ timeout' = FALSE
    /\ s_pc' = "wait"
    /\ running' = IF q_tx # <<>> THEN "send" ELSE "none"
    /\ UNCHANGED <<state, ev_state_change, q_rx, q_tx, cvars, init_sent, pvars,
                   rvars, n_enq, dvars, wvars, pass, burst, scen>>

\* websocket.send_text fails.
send_text_fails ==
    /\ Live("send")
    /\ s_pc = "send_text"
    /\ TaskGroupFails

\* ------------------------------------------------- recv_loop, on the wire
\* One frame read from the transport: decode_client_msg raises, which ends
\* the task group, or returns the message that is put on q_rx.
recv_loop_wire ==
    /\ Live("recv")
    /\ r_pc = "receive_text"
    /\ n_rx < MaxCmds
    /\ Len(q_rx) < q_maxsize
    /\ \E p \in PayloadsWire :
          IF decode_client_msg(p) = DecodeError
          THEN /\ r_text' = <<p>>
               /\ n_rx' = n_rx + 1
               /\ closed' = TRUE
               /\ ws_close' = <<1011>>
               /\ registry' = registry \ {uid}
               /\ UNCHANGED <<state, ev_state_change, q_rx, q_tx, init_sent, pvars,
                              running, r_pc, r_msg, n_enq, dvars, wvars,
                              svars, hvars>>
          ELSE /\ q_rx' = QueuePut(q_rx, [msg |-> decode_client_msg(p),
                                          seq |-> n_rx + 1])
               /\ n_rx' = n_rx + 1
               /\ UNCHANGED <<state, ev_state_change, q_tx, cvars, init_sent, pvars,
                              running, r_pc, r_msg, r_text, n_enq, dvars,
                              wvars, svars, hvars>>

\* websocket.receive_text raises: the peer is gone.
receive_text_fails ==
    /\ Live("recv")
    /\ r_pc = "receive_text"
    /\ TaskGroupFails

\* ----------------------------------------------------------------- Spec
Dispatch ==
    \/ handle_client_msg_loop
    \/ get_diff_returns
    \/ get_current_branch_returns
    \/ send_repo_data_returns
    \/ get_git_log_returns
    \/ handle_client_msg_fails

Watcher ==
    \/ handle_state_changes_loop
    \/ debounce_ends
    \/ send_diff_summary_returns
    \/ send_diff_returns
    \/ handle_state_changes_fails

Sender ==
    \/ send_loop
    \/ send_loop_timeout
    \/ send_text_returns
    \/ send_text_fails

\* The session engine: receive, dispatch and change-watcher over every
\* message shape.  send_loop does not run, so q_tx keeps every message in
\* the order it was put.
Next == send_init_data \/ recv_loop \/ Dispatch \/ Watcher

Spec == Init /\ [][Next]_vars

\* The whole connection, the batcher included, over a few message shapes.
NextSend == send_init_data \/ recv_loop_few \/ Dispatch \/ Watcher \/ Sender

SpecSend == Init /\ [][NextSend]_vars

\* The whole connection from the frames on the wire on, with the failures
\* of the transport.
NextWire ==
    \/ send_init_data
    \/ recv_loop_wire
    \/ receive_text_fails
    \/ Dispatch
    \/ Watcher
    \/ Sender

SpecWire == Init /\ [][NextWire]_vars

\* Sessions in which a get-diff finds a repository, an endpoint and an
\* expanded path.
NextGetDiff ==
    \/ send_init_data
    \/ recv_loop_get_diff
    \/ handle_client_msg_loop
    \/ get_current_branch_returns
    \/ send_repo_data_returns
    \/ get_diff_returns
    \/ handle_client_msg_fails
    \/ Watcher

SpecGetDiff == Init /\ [][NextGetDiff]_vars

\* ------------------------------------------------------ parsers at work
\* All but the parser's own variables.
connvars ==
    <<state, ev_state_change, q_rx, q_tx, cvars, init_sent, running, rvars,
      n_enq, dvars, wvars, svars, hvars>>

\* One more piece of git's output is written.
Write(pieces) ==
    /\ result = <<>>
    /\ stage < Len(pieces)
    /\ \E piece \in pieces[stage + 1] : text' = text \o piece
    /\ stage' = stage + 1
    /\ UNCHANGED <<result, connvars>>

write_hunk_header == Write(HunkHeaderPieces)

\* parse_hunk_header(text)
call_parse_hunk_header ==
    /\ result = <<>>
    /\ result' = <<parse_hunk_header(text)>>
    /\ UNCHANGED <<text, stage, connvars>>

NextHunkHeader == write_hunk_header \/ call_parse_hunk_header

SpecHunkHeader == Init /\ [][NextHunkHeader]_vars

write_summary_line == Write(SummaryLinePieces)

\* parse_compact_summary_line(text)
call_parse_compact_summary_line ==
    /\ result = <<>>
    /\ result' = <<parse_compact_summary_line(text)>>
    /\ UNCHANGED <<text, stage, connvars>>

NextSummaryLine == write_summary_line \/ call_parse_compact_summary_line

SpecSummaryLine == Init /\ [][NextSummaryLine]_vars

\* One more line of stdout.
write_diff_line ==
    /\ result = <<>>
    /\ stage < MaxLines
    /\ \E line \in DiffLines : text' = text \o line
    /\ stage' = stage + 1
    /\ UNCHANGED <<result, connvars>>

\* The fold of get_git_diff and get_commit_diff over the lines.
call_get_diff_files ==
    /\ result = <<>>
    /\ result' = <<get_diff_files(text)>>
    /\ UNCHANGED <<text, stage, connvars>>

NextDiffFold == write_diff_line \/ call_get_diff_files

SpecDiffFold == Init /\ [][NextDiffFold]_vars

\* Sessions in which the endpoints change while the change-watcher resyncs.
NextResync ==
    \/ send_init_data
    \/ recv_loop_resync
    \/ handle_client_msg_loop
    \/ get_current_branch_returns
    \/ send_repo_data_returns
    \/ handle_client_msg_fails
    \/ Watcher

SpecResync == Init /\ [][NextResync]_vars

\* The event loop runs every task that is ready: a handler whose message
\* is on q_rx, a gateway call that returns, the watcher once signalled, the
\* end of its sleep.  The client is free to send no more, and no failure
\* has to happen.
FairResync ==
    /\ WF_vars(send_init_data)
    /\ WF_vars(handle_client_msg_loop)
    /\ WF_vars(get_current_branch_returns)
    /\ WF_vars(send_repo_data_returns)
    /\ WF_vars(handle_state_changes_loop)
    /\ WF_vars(debounce_ends)
    /\ WF_vars(send_diff_summary_returns)
    /\ WF_vars(send_diff_returns)

SpecResyncFair == SpecResync /\ FairResync

\* The whole connection on the commands of MsgClientBatch.
NextBatch ==
    \/ send_init_data
    \/ recv_loop_batch
    \/ handle_client_msg_loop
    \/ get_current_branch_returns
    \/ send_repo_data_returns
    \/ handle_client_msg_fails
    \/ Watcher
    \/ Sender

SpecBatch == Init /\ [][NextBatch]_vars

\* The event loop runs every task that is ready, and wait_for times out
\* when q_tx stays empty.  The client is free to send no more, and no
\* failure has to happen.
FairBatch ==
    /\ FairResync
    /\ WF_vars(send_loop)
    /\ WF_vars(send_loop_timeout)
    /\ WF_vars(send_text_returns)

SpecBatchFair == SpecBatch /\ FairBatch

\* Sessions on an inbound queue of capacity MaxQueue.
NextBackpressure ==
    \/ send_init_data
    \/ recv_loop_backpressure
    \/ q_rx_put_resumes
    \/ handle_client_msg_loop
    \/ get_current_branch_returns
    \/ send_repo_data_returns
    \/ get_diff_returns
    \/ handle_client_msg_fails
    \/ Watcher

SpecBackpressure == Init /\ [][NextBackpressure]_vars

\* A session without a repository: the commands that need no gateway, and
\* the change-watcher, whose passes then put the echo and nothing else.
NextLocal ==
    \/ send_init_data
    \/ recv_loop_local
    \/ handle_client_msg_loop
    \/ handle_state_changes_loop
    \/ debounce_ends

SpecLocal == Init /\ [][NextLocal]_vars

\* =============================================================== claims
\* Every server message so far, in transport order, then those still in
\* send_loop's buffer, then those still on q_tx.
AllEvents == sent \o [i \in 1..Len(buffer) |-> buffer[i].msg] \o q_tx

Calls == {w_call, d_call} \cup {e.call : e \in Range(AllEvents)}

\* What the watcher's current or last pass has put on q_tx.
PassEvents ==
    {e \in Range(AllEvents) : e.src = "watcher" /\ e.id >= pass.first}

\* The pass has run to its end, undisturbed; state_prev still is its snapshot.
PassOver == pass.first > 0 /\ w_pc = "sleep" /\ pass.quiet /\ ~closed

\* Repository, branch or an endpoint differs between st and prev.
FieldsDiffer(st, prev) ==
    \/ st.repo # prev.repo
    \/ st.branch # prev.branch
    \/ st.commit_a # prev.commit_a
    \/ st.commit_b # prev.commit_b

\* C1: a pass that finds repository, branch, endpoint A or endpoint B changed
\* since its snapshot puts a session-state echo, a diff-summary (repository
\* and endpoint A being set) and, with paths open, the diff of the open paths.
C1_ResyncOnAnyChange ==
    (PassOver /\ FieldsDiffer(pass.at, state_prev)) =>
        /\ \E e \in PassEvents : e.type = "session-state"
        /\ (Truthy(pass.at.repo) /\ Truthy(pass.at.commit_a)) =>
              /\ \E e \in PassEvents : e.type = "diff-summary"
              /\ pass.at.open_paths # <<>> =>
                    \E e \in PassEvents :
                        e.type = "diff" /\ e.call.cmd.paths = pass.at.open_paths

\* C2: a pass that finds repository, branch and endpoints as in its snapshot
\* and new paths open puts no diff-summary, and no diff but that of exactly
\* the new paths.
C2_OnlyNewPaths ==
    (/\ PassOver
     /\ ~FieldsDiffer(pass.at, state_prev)
     /\ new_paths(pass.at, state_prev) # {}) =>
        /\ \A e \in PassEvents : e.type # "diff-summary"
        /\ \A e \in PassEvents :
              e.type = "diff" =>
                 /\ Range(e.call.cmd.paths) = new_paths(pass.at, state_prev)
                 /\ Len(e.call.cmd.paths) =
                       Cardinality(new_paths(pass.at, state_prev))

\* C3: the mutating commands of one debounce window make the watcher run one
\* pass: it puts one session-state echo for the burst.
C3_OnePassPerBurst == ~burst.late => burst.echoes <= 1

\* Dispatch and watcher have nothing left to do.
Quiescent == ~closed /\ d_pc = "get" /\ q_rx = <<>> /\ WatcherIdle

ScenSummaries ==
    {e \in Range(AllEvents) : e.type = "diff-summary" /\ e.id > scen.base}

\* C4: with a repository selected and no endpoint set, set-commit-a(A) then
\* set-commit-b(B), B another commit than A, end in exactly one diff-summary,
\* the one of (A, B).
C4_OneSummaryForPair ==
    (scen.phase = "ab" /\ scen.a # scen.b /\ Quiescent) =>
        \E e \in ScenSummaries :
            /\ ScenSummaries = {e}
            /\ e.call.from_commit = scen.a
            /\ e.call.to_commit = scen.b

\* The diff query that st calls for.
DiffCallOk(c, st) ==
    /\ Truthy(st.repo) /\ Truthy(st.commit_a)
    /\ c.cwd = st.repo
    /\ IF Truthy(st.commit_b)
       THEN /\ c.fn = "get_git_diff"
            /\ c.cmd.sub = "diff" /\ c.cmd.opts.patch
            /\ c.cmd.revs = <<st.commit_a, st.commit_b>>
       ELSE /\ c.fn = "get_commit_diff"
            /\ c.cmd.sub = "show" /\ c.cmd.opts.patch
            /\ c.from_commit = st.commit_a /\ c.to_commit = st.commit_a

\* The summary query that st calls for.
SummaryCallOk(c, st) ==
    /\ Truthy(st.repo) /\ Truthy(st.commit_a)
    /\ c.cwd = st.repo
    /\ c.fn = "git_diff_compact_summary"
    /\ c.cmd.sub = "diff" /\ c.cmd.opts.compact
    /\ IF Truthy(st.commit_b)
       THEN c.cmd.revs = <<st.commit_a, st.commit_b>>
       ELSE c.cmd.revs = <<Parent(st.commit_a), st.commit_a>>

C5_Step ==
    /\ (w_pc' = "send_diff_summary" /\ w_pc # "send_diff_summary") =>
          SummaryCallOk(w_call', state')
    /\ (w_pc' = "send_diff" /\ w_pc # "send_diff") => DiffCallOk(w_call', state')
    /\ (d_pc' = "send_diff" /\ d_pc # "send_diff") => DiffCallOk(d_call', state')
    /\ \A i \in 1..Len(q_tx') :
          (q_tx'[i].id > n_enq /\ q_tx'[i].type \in {"diff", "diff-summary"}) =>
             \/ /\ q_tx'[i].src = "watcher"
                /\ q_tx'[i].call = w_call
                /\ w_pc = (IF q_tx'[i].type = "diff"
                           THEN "send_diff" ELSE "send_diff_summary")
             \/ /\ q_tx'[i].src = "dispatch"
                /\ q_tx'[i].type = "diff"
                /\ q_tx'[i].call = d_call
                /\ d_pc = "send_diff"

C6_ShowNamesEndpointA ==
    \A c \in Calls : c.fn = "get_commit_diff" => c.cmd.revs = <<c.from_commit>>

\* C7: the messages written to the transport, batch after batch, are the
\* messages put on q_tx, in the order they were put, up to some point.
C7_SentIsPrefix ==
    /\ Len(sent) <= n_enq
    /\ \A i \in 1..Len(sent) : sent[i].id = i

\* Two batches at least are out, with messages of both producers.
C7_Witness ==
    /\ Len(sent) > MaxChunk
    /\ \E e \in Range(sent) : e.src = "dispatch"
    /\ \E e \in Range(sent) : e.src = "watcher"
    /\ \E i \in 1..Len(sent) - 1 :
          sent[i].src = "watcher" /\ sent[i + 1].src = "dispatch"

\* C8: send_loop starts a flush only with a full buffer, or when its wait has
\* just timed out on a buffer that holds something.
C8_FlushOnlyOnCountOrTimeout ==
    [][(s_pc = "wait" /\ s_pc' = "send_text") =>
          \/ Len(buffer') >= MaxChunk
          \/ q_tx' = q_tx /\ buffer' = buffer /\ buffer # <<>>]_vars

\* C9: of more than MaxChunk messages put back to back, the first MaxChunk
\* leave as one batch.
C9_ThresholdPrefixBatch ==
    (/\ tx_burst.first > 0
     /\ \E i \in 1..Len(sent) : sent[i].id = tx_burst.first + MaxChunk - 1)
        => tx_burst.hit

\* C10: handlers run one at a time in the order of receipt: the message in
\* hand is the oldest one received whose handler has not completed, and the
\* messages waiting on q_rx are the later ones, in the order received.
C10_ReceiptOrder ==
    LET busy == IF d_pc = "get" THEN 0 ELSE 1
    IN  /\ d_pc # "get" => d_msg.seq = n_done + 1
        /\ \A i \in 1..Len(q_rx) : q_rx[i].seq = n_done + busy + i
        /\ n_rx = n_done + busy + Len(q_rx)

\* Two messages wait while the handler of an earlier one awaits the gateway.
C10_Witness == d_pc = "send_repo_data" /\ Len(q_rx) = 2 /\ n_done = 0

\* The dispatch task takes message m from q_rx in this step.
Handles(m) ==
    /\ d_pc = "get" /\ q_rx # <<>>
    /\ Head(q_rx).msg = m
    /\ Len(q_rx') < Len(q_rx)

\* list without any occurrence of x.
Without(list, x) ==
    LET Keep(y) == y # x IN SelectSeq(list, Keep)

\* One step of the fold: open-path P appends P if absent, close-path P takes
\* P out if present.
FoldStep(list, m) ==
    IF m.type = "open-path"
    THEN IF m.arg \in Range(list) THEN list ELSE Append(list, m.arg)
    ELSE Without(list, m.arg)

NoDuplicate(list) ==
    \A i, j \in 1..Len(list) : i # j => list[i] # list[j]

PathOps ==
    {WithArg("open-path", p) : p \in Paths}
    \cup {WithArg("close-path", p) : p \in Paths}

C11_Step ==
    IF \E m \in PathOps : Handles(m)
    THEN \A m \in PathOps :
            Handles(m) =>
               /\ state'.open_paths = FoldStep(state.open_paths, m)
               /\ NoDuplicate(state'.open_paths)
    ELSE state'.open_paths = state.open_paths

\* C11: starting from the empty list, under open-path and close-path
\* commands the expanded-path list is the fold of the commands in the order
\* they are handled (every handled command takes the list to the next value
\* of the fold, no other step changes it), and it never holds a path twice.
C11_PathsAreFold ==
    /\ state.open_paths = <<>>
    /\ [][C11_Step]_vars

\* Four path commands are through, the last ones having closed and opened
\* again the path opened first.
C11_Witness == n_done = MaxOps /\ state.open_paths = <<"p2", "p1">>

C16_Step ==
    LET n == state.git_flags.context_lines
        n1 == state'.git_flags.context_lines
    IN  /\ Handles(Plain("context-inc")) => n1 = n + 1 /\ ev_state_change'
        /\ Handles(Plain("context-dec")) =>
              IF n > 0
              THEN n1 = n - 1 /\ ev_state_change'
              ELSE state' = state /\ ev_state_change' = ev_state_change
        /\ Handles(Plain("context-reset")) =>
              IF n # 3
              THEN n1 = 3 /\ ev_state_change'
              ELSE state' = state /\ ev_state_change' = ev_state_change
        /\ (\A t \in {"context-inc", "context-dec", "context-reset"} :
               ~Handles(Plain(t))) => n1 = n

\* C16: the context-line count starts at 3 and is never negative;
\* context-inc adds 1, context-dec takes 1 off a count above 0 and at 0
\* changes nothing and signals nothing, context-reset sets 3 and on a count
\* of 3 changes nothing and signals nothing; nothing else changes the count.
C16_ContextFloor ==
    /\ state.git_flags.context_lines = 3
    /\ [](state.git_flags.context_lines >= 0)
    /\ [][C16_Step]_vars

\* The count is at its floor, no signal is pending, and one more
\* context-dec is next in line.
C16_Witness ==
    /\ state.git_flags.context_lines = 0
    /\ ~ev_state_change
    /\ d_pc = "get" /\ q_rx # <<>>
    /\ Head(q_rx).msg = Plain("context-dec")

\* C12: once a task of the connection has failed the transport is closed
\* with status 1011, the connection's queues are out of the registries, and
\* no task takes another step: the session state, the queues and what was
\* written to the transport stay as they are.  Until then the transport is
\* open and the queues are registered.
C12_FailureTearsDown ==
    /\ [](IF closed
          THEN ws_close = <<1011>> /\ uid \notin registry
          ELSE ws_close = <<>> /\ uid \in registry)
    /\ [][closed => vars' = vars]_vars

\* The connection is down with work at hand: a command waiting, the watcher
\* in a gateway call, messages on q_tx and in the batcher's buffer.
C12_Witness ==
    /\ closed
    /\ q_rx # <<>> /\ q_tx # <<>> /\ buffer # <<>>
    /\ w_pc = "send_diff_summary"

\* The 18 values of "type" that decode_client_msg knows.
KnownTypes ==
    {"ping", "pong", "heartbeat", "set-commit-a", "set-commit-b",
     "reset-commit-a", "reset-commit-b", "swap-commits", "context-inc",
     "context-dec", "ignore-all-space", "context-reset", "repo-select",
     "get-diff", "branch-select", "open-path", "close-path", "set-open-paths"}

\* The field a frame of that type has to hold, None when it needs none.
RequiredKey(type) ==
    CASE type = "heartbeat" -> "timestamp"
      [] type \in {"set-commit-a", "set-commit-b"} -> "commit"
      [] type = "ignore-all-space" -> "value"
      [] type = "repo-select" -> "repo"
      [] type = "branch-select" -> "branch"
      [] type \in {"open-path", "close-path"} -> "path"
      [] type = "set-open-paths" -> "paths"
      [] OTHER -> None

\* A frame that matches none of the known shapes.
Malformed(p) ==
    \/ ~p.obj
    \/ p.type \notin KnownTypes
    \/ RequiredKey(p.type) # None /\ p.key # RequiredKey(p.type)

\* Frames of every type, known or not, with each key or none, and a frame
\* that is no object.
Payloads ==
    {Payload(TRUE, t, k, "v") :
        t \in KnownTypes \cup {"bogus", None},
        k \in {None, "timestamp", "commit", "value", "repo", "branch",
               "path", "paths"}}
    \cup {Payload(FALSE, None, None, None)}

C13_Step ==
    (n_rx' = n_rx + 1) =>
        \/ \E p \in PayloadsWire :
              /\ ~Malformed(p)
              /\ q_rx' = Append(q_rx, [msg |-> decode_client_msg(p),
                                       seq |-> n_rx + 1])
              /\ r_text' = <<>> /\ ~closed'
        \/ \E p \in PayloadsWire :
              /\ Malformed(p)
              /\ r_text' = <<p>>
              /\ q_rx' = q_rx /\ state' = state
              /\ closed' /\ ws_close' = <<1011>>

\* C13: decode_client_msg fails on every frame that matches no known shape;
\* reading such a frame puts nothing on q_rx, leaves the session state as
\* it is and ends the connection, and nothing is put on q_rx or done to the
\* session state afterwards.
C13_MalformedIsFatal ==
    /\ \A p \in Payloads \cup PayloadsWire :
          Malformed(p) <=> decode_client_msg(p) = DecodeError
    /\ [](r_text # <<>> => closed /\ \A i \in 1..Len(q_rx) : q_rx[i].seq # n_rx)
    /\ [][C13_Step]_vars
    /\ [][r_text # <<>> => (q_rx' = q_rx /\ state' = state)]_vars

\* A frame that lacks its field was read after a command had been served
\* and with another still waiting.
C13_Witness ==
    /\ r_text = <<Payload(TRUE, "set-commit-a", None, None)>>
    /\ n_done > 0 /\ q_rx # <<>>

C14_Step ==
    /\ \A r \in Repos :
          Handles(WithArg("repo-select", r)) =>
             IF r = state.repo
             THEN /\ state' = state
                  /\ q_tx' = q_tx
                  /\ ev_state_change' = ev_state_change
                  /\ d_pc' = "get" /\ n_done' = n_done + 1
             ELSE /\ state' = [state EXCEPT !.repo = r, !.commit_a = None,
                                            !.commit_b = None]
                  /\ d_pc' = "get_current_branch"
    /\ d_pc \in {"get_current_branch", "send_repo_data"} =>
          /\ state'.repo = state.repo
          /\ state'.commit_a = state.commit_a
          /\ state'.commit_b = state.commit_b
          /\ state'.open_paths = state.open_paths
          /\ state'.git_flags = state.git_flags
          /\ d_pc' = "send_repo_data" => state'.branch \in CheckedOut
          /\ d_pc = "send_repo_data" => state'.branch = state.branch
    /\ (d_pc = "send_repo_data" /\ d_pc' = "get") =>
          /\ state'.repo = d_msg.msg.arg
          /\ state'.commit_a = None /\ state'.commit_b = None
          /\ state'.branch \in CheckedOut

\* C14: the handler of repo-select R, R not the current repository, sets
\* the repository to R and unsets both endpoints, then sets the branch to
\* the one the gateway reports as checked out; from its start to its end
\* nothing touches the expanded paths or the view options, and at its end
\* the repository is R, the endpoints are unset and the branch is the
\* checked-out one.  With R the current repository the handler changes
\* nothing, puts nothing on q_tx and does not signal.
C14_RepoSelectFrame == [][C14_Step]_vars

\* The selection of r1 is complete in a session that had endpoint A set (the
\* watcher's snapshot still shows it) and a path expanded.
C14_Witness ==
    /\ d_pc = "get" /\ n_done = 3
    /\ state.repo = "r1" /\ state.branch = "main"
    /\ state.commit_a = None /\ state.commit_b = None
    /\ state_prev.commit_a = "c1" /\ state_prev.repo = None
    /\ state.open_paths = <<"p1">>

\* The messages at i .. i + 3 of q are send_repo_data's, in its order.
RepoData(q, i) ==
    /\ i + 3 <= Len(q)
    /\ \A k \in 0..3 : q[i + k].src = "dispatch" /\ q[i + k].id = q[i].id + k
    /\ q[i].type = "branches"
    /\ q[i].call.fn = "get_list_of_branches"
    /\ q[i + 1].type = "tags"
    /\ q[i + 1].call.fn = "get_list_of_tags"
    /\ q[i + 1].call.slice \in 1..50
    /\ q[i + 2].type = "commits"
    /\ q[i + 2].call.fn = "get_git_log"
    /\ q[i + 2].call.cmd.opts.max_count \in 1..25
    /\ q[i + 3].type = "session-state"

C15_Step ==
    /\ \A r \in Repos :
          (Handles(WithArg("repo-select", r)) /\ r # state.repo) =>
             q_tx' = q_tx /\ ev_state_change' = ev_state_change
    /\ d_pc = "get_current_branch" =>
          \A i \in 1..Len(q_tx') : q_tx'[i].id > n_enq => q_tx'[i].src = "watcher"
    /\ (d_pc = "send_repo_data" /\ ~closed') =>
          \/ \A i \in 1..Len(q_tx') :
                q_tx'[i].id > n_enq => q_tx'[i].src = "watcher"
          \/ /\ Len(q_tx') = Len(q_tx) + 4
             /\ SubSeq(q_tx', 1, Len(q_tx)) = q_tx
             /\ RepoData(q_tx', Len(q_tx) + 1)
             /\ q_tx'[Len(q_tx) + 1].call.cwd = d_msg.msg.arg
             /\ ev_state_change'
             /\ q_rx' = q_rx /\ d_pc' = "get"

\* C15: the handler of a repo-select of a new repository puts nothing on
\* q_tx and signals nothing until its gateway calls are through; then it
\* puts branches, tags (the first 50 at most), commits (of a log of 25 at
\* most) and the session-state echo, one after the other with nothing in
\* between, and only then signals the change-watcher and goes on to the next
\* command.  On q_tx a branches message is always the first of such a run of
\* four, and tags messages come in no other place.
C15_RepoDataOrder ==
    /\ [](\A i \in 1..Len(q_tx) :
            /\ q_tx[i].type = "branches" => RepoData(q_tx, i)
            /\ q_tx[i].type = "tags" => i > 1 /\ RepoData(q_tx, i - 1))
    /\ [][C15_Step]_vars

\* The four messages of a selection, then the echo of the watcher's pass
\* that the selection set off, then the commits of a later branch-select.
C15_Witness ==
    \E i \in 1..Len(q_tx) :
        /\ RepoData(q_tx, i)
        /\ i + 5 <= Len(q_tx)
        /\ q_tx[i + 4].src = "watcher" /\ q_tx[i + 4].type = "session-state"
        /\ q_tx[i + 5].src = "dispatch" /\ q_tx[i + 5].type = "commits"

GetDiffs ==
    {Msg("get-diff", None, <<>>, FALSE, FALSE),
     Msg("get-diff", None, <<"p1">>, TRUE, FALSE)}

C17_Step ==
    /\ \A m \in GetDiffs :
          Handles(m) =>
             /\ state' = state
             /\ ev_state_change' = ev_state_change
             /\ q_tx' = q_tx
             /\ IF Truthy(state.repo) /\ Truthy(state.commit_a)
                THEN d_pc' = "send_diff" /\ n_done' = n_done
                ELSE d_pc' = "get" /\ n_done' = n_done + 1
    /\ d_pc = "send_diff" =>
          /\ state' = state
          /\ Len(q_rx') >= Len(q_rx)
          /\ (d_pc' # "send_diff" /\ ~closed') =>
                /\ Len(q_tx') = Len(q_tx) + 1
                /\ SubSeq(q_tx', 1, Len(q_tx)) = q_tx
                /\ q_tx'[Len(q_tx')].type = "diff"
                /\ q_tx'[Len(q_tx')].src = "dispatch"
                /\ q_tx'[Len(q_tx')].call = d_call
                /\ ev_state_change' = ev_state_change
                /\ n_done' = n_done + 1
                /\ q_rx' = q_rx

\* C17: the handler of get-diff leaves the session state and the change
\* signal as they are; with repository and endpoint A set it awaits the diff
\* itself, and the diff message is on q_tx before the dispatch task takes
\* the next command from q_rx, wherever the change-watcher is; without them
\* it puts nothing.
C17_GetDiffInline == [][C17_Step]_vars

\* The diff of a get-diff is on q_tx while the change-watcher is still in
\* the gateway call of its own pass.
C17_Witness ==
    /\ q_tx # <<>>
    /\ q_tx[Len(q_tx)].type = "diff" /\ q_tx[Len(q_tx)].src = "dispatch"
    /\ w_pc = "send_diff_summary" /\ d_pc = "get"

\* C18: the diff query of a get-diff that carries no path list has the
\* session's expanded-path list as its path filter.
C18_GetDiffAllOpenPaths ==
    (d_pc = "send_diff" /\ ~d_msg.msg.has_paths) =>
        d_call.cmd.paths = state.open_paths

\* C19: a diff event carries partial = TRUE exactly when its diff was scoped
\* to an explicit path list: the diff of a get-diff carries it exactly when
\* the command had paths, and the diff of a change-watcher pass carries it
\* exactly when the pass took the branch of the newly expanded paths, not
\* the resync of all expanded paths.
C19_PartialIffExplicitList ==
    /\ \A e \in Range(AllEvents) :
          (e.type = "diff" /\ e.src = "dispatch") =>
             (e.partial <=> e.call.cmd.paths # <<>>)
    /\ PassOver =>
          \A e \in PassEvents :
             e.type = "diff" =>
                (e.partial <=> ~state_changed(pass.at, state_prev))

\* The messages read and not yet handled, oldest first: the one in hand,
\* those on q_rx, the one held by a suspended put().
Pending ==
    (IF d_pc = "get" THEN <<>> ELSE <<d_msg>>)
        \o q_rx
        \o (IF r_pc = "put" THEN <<r_msg>> ELSE <<>>)

C20_Step ==
    /\ (n_rx' = n_rx + 1 /\ Len(q_rx) = MaxQueue) =>
          /\ r_pc' = "put"
          /\ r_msg'.seq = n_rx'
          /\ q_rx' = q_rx
    /\ r_pc = "put" =>
          /\ n_rx' = n_rx
          /\ Len(q_rx) = MaxQueue => (r_pc' = "put" /\ r_msg' = r_msg)
          /\ (r_pc' # "put" /\ ~closed') => q_rx' = Append(q_rx, r_msg)

\* C20: q_rx never holds more than its capacity; a message read while the
\* queue is full is held by the receive task, which reads nothing more
\* until the dispatch task has taken a command off the queue and the held
\* message is on it; the messages read and not yet handled are, in the
\* order read, the one in hand, those on the queue and the held one, none
\* missing.
C20_Backpressure ==
    /\ [](Len(q_rx) <= MaxQueue)
    /\ [](/\ Len(Pending) = n_rx - n_done
          /\ \A i \in 1..Len(Pending) : Pending[i].seq = n_done + i)
    /\ [][C20_Step]_vars

\* The queue is full, the receive task holds one more message in put(), and
\* the dispatch task awaits the gateway.
C20_Witness ==
    /\ r_pc = "put" /\ Len(q_rx) = MaxQueue
    /\ d_pc = "send_repo_data"
    /\ ~closed

\* s is a non-empty run of digits.
IsNumber(s) == s # <<>> /\ \A i \in 1..Len(s) : s[i] \in Digit

\* s is empty, or a comma and a number.
IsCount(s) == s = <<>> \/ (s[1] = "," /\ IsNumber(Tail(s)))

\* No digit follows, nor, behind a header that leaves the new count out, a
\* comma and a digit: the numbers of the header end where the rest begins.
CleanRest(s, counted) ==
    /\ ~(s # <<>> /\ s[1] \in Digit)
    /\ counted \/ ~(Len(s) >= 2 /\ s[1] = "," /\ s[2] \in Digit)

\* The ways to read h as '@@ -a[,b] +c[,d]' and a rest: the positions
\* <<i, j, k, l>> at which a, [,b], c and [,d] end.
HunkForms(h) ==
    {f \in (4..Len(h)) \X (4..Len(h)) \X (4..Len(h)) \X (4..Len(h)) :
        /\ f[1] <= f[2] /\ f[2] + 2 <= f[3] /\ f[3] <= f[4]
        /\ SubSeq(h, 1, 4) = <<"@", "@", " ", "-">>
        /\ IsNumber(SubSeq(h, 5, f[1]))
        /\ IsCount(SubSeq(h, f[1] + 1, f[2]))
        /\ SubSeq(h, f[2] + 1, f[2] + 2) = <<" ", "+">>
        /\ IsNumber(SubSeq(h, f[2] + 3, f[3]))
        /\ IsCount(SubSeq(h, f[3] + 1, f[4]))}

\* The count a form gives: the number behind the comma, or 1.
CountOf(s) == IF s = <<>> THEN 1 ELSE Decimal(Tail(s))

\* C21: parse_hunk_header returns (a, b, c, d) for a header that reads
\* '@@ -a[,b] +c[,d]' up to where its numbers end, a count left out being 1,
\* and fails with ValueError for a text that cannot be read so.
C21_HunkHeader ==
    result # <<>> =>
        /\ HunkForms(text) = {} => result[1] = ValueError
        /\ \A f \in HunkForms(text) :
              CleanRest(From(text, f[4] + 1), f[4] > f[3]) =>
                 result[1] =
                    [ok |-> TRUE,
                     val |-> <<Decimal(SubSeq(text, 5, f[1])),
                               CountOf(SubSeq(text, f[1] + 1, f[2])),
                               Decimal(SubSeq(text, f[2] + 3, f[3])),
                               CountOf(SubSeq(text, f[3] + 1, f[4]))>>]
        /\ HunkForms(text) # {} => result[1].ok

\* '@@ -1 +1,2 @@' has been parsed to (1, 1, 1, 2).
C21_Witness ==
    /\ text = <<"@", "@", " ", "-", "1", " ", "+", "1", ",", "2", " ", "@", "@">>
    /\ result = <<[ok |-> TRUE, val |-> <<1, 1, 1, 2>>]>>

\* The part of a summary line left of its first bar, and the part right of
\* it, without the whitespace around them.
LeftOfBar(line) == Strip(SubSeq(Strip(line), 1, Find(Strip(line), <<"|">>) - 1))
RightOfBar(line) == Strip(From(Strip(line), Find(Strip(line), <<"|">>) + 1))

\* t occurs in s.
Contains(s, t) ==
    \E i \in 1..(Len(s) - Len(t) + 1) : SubSeq(s, i, i + Len(t) - 1) = t

\* The first token of the right part is no number: it holds no digit, or a
\* character that no number holds.
NonNumeric(right) ==
    \/ \A i \in 1..Len(FirstPart(right)) : FirstPart(right)[i] \notin Digit
    \/ \E i \in 1..Len(FirstPart(right)) :
          FirstPart(right)[i] \notin Digit \cup {"+", "-", "_"}

CountsUnset(fc) ==
    fc.additions = <<>> /\ fc.deletions = <<>> /\ fc.changes = <<>>

\* C22: of a line with a bar, parse_compact_summary_line classifies the left
\* part: with ' => ' in it, renamed, old_path and path being the two sides of
\* the first arrow; else ending in ' (new)', added, the suffix stripped; else
\* ending in ' (gone)', deleted, the suffix stripped; else modified, the
\* whole left part being the path.  A right part that begins with 'Bin' sets
\* is_binary and leaves the three counts unset; a first token that is no
\* number leaves them unset, and a FileChange is returned all the same.
C22_SummaryLine ==
    (result # <<>> /\ Contains(text, <<"|">>)) =>
        LET left == LeftOfBar(text)
            right == RightOfBar(text)
            arrow == <<" ", "=", ">", " ">>
            new == <<" ", "(", "n", "e", "w", ")">>
            gone == <<" ", "(", "g", "o", "n", "e", ")">>
        IN  /\ result[1] # <<>>
            /\ LET fc == result[1][1]
               IN  /\ IF Contains(left, arrow)
                      THEN /\ fc.change_type = "renamed"
                           /\ fc.old_path # <<>>
                           /\ ~Contains(fc.old_path[1] \o <<" ", "=", ">">>, arrow)
                           /\ \E x, y \in {<<>>, <<" ">>, <<" ", " ">>} :
                                 left = fc.old_path[1] \o x \o arrow \o y \o fc.path
                      ELSE IF EndsWith(left, new)
                      THEN /\ fc.change_type = "added"
                           /\ fc.old_path = <<>>
                           /\ fc.path = Strip(SubSeq(left, 1, Len(left) - Len(new)))
                      ELSE IF EndsWith(left, gone)
                      THEN /\ fc.change_type = "deleted"
                           /\ fc.old_path = <<>>
                           /\ fc.path = Strip(SubSeq(left, 1, Len(left) - Len(gone)))
                      ELSE /\ fc.change_type = "modified"
                           /\ fc.old_path = <<>>
                           /\ fc.path = left
                   /\ StartsWith(right, <<"B", "i", "n">>) =>
                         fc.is_binary /\ CountsUnset(fc)
                   /\ NonNumeric(right) => CountsUnset(fc)

\* ' binary.bin | Bin 0 -> 1024 bytes' has been parsed: binary, no counts.
C22_Witness ==
    /\ text = <<" ", "b", "i", "n", "a", "r", "y", ".", "b", "i", "n", " ", "|", " ", "B", "i", "n", " ", "0", " ", "-", ">", " ", "1", "0", "2", "4", " ", "b", "y", "t", "e", "s">>
    /\ result # <<>> /\ result[1] # <<>>
    /\ result[1][1].is_binary /\ result[1][1].path = <<"b", "i", "n", "a", "r", "y", ".", "b", "i", "n">>
    /\ result[1][1].changes = <<>>

\* The lines that open a file section, and the last line of the section
\* that line i opens.
SectionStarts(lines) ==
    {i \in 1..Len(lines) : StartsWith(lines[i], <<"d", "i", "f", "f", " ", "-", "-", "g", "i", "t">>)}

SectionEnd(lines, i) ==
    IF \E j \in SectionStarts(lines) : j > i
    THEN (CHOOSE j \in SectionStarts(lines) :
             j > i /\ \A k \in SectionStarts(lines) : k > i => j <= k) - 1
    ELSE Len(lines)

\* The lines of the section opened at i that begin with marker.
Markers(lines, i, marker) ==
    {j \in (i + 1)..SectionEnd(lines, i) : StartsWith(lines[j], marker)}

\* C28: in the files that the fold of a unified diff returns, the path of a
\* file is that of a '+++ b/' line of its section if there is one, and that
\* of a '--- a/' line only if there is none.
C28_PathPrefersNewSide ==
    (result # <<>> /\ result[1].ok) =>
        \A i \in SectionStarts(text) :
           LET file == result[1].val[Cardinality({j \in SectionStarts(text) : j <= i})]
               new == Markers(text, i, <<"+", "+", "+", " ", "b", "/">>)
               old == Markers(text, i, <<"-", "-", "-", " ", "a", "/">>)
           IN  /\ new # {} => \E j \in new : file.file_path = From(text[j], 7)
               /\ (new = {} /\ old # {}) =>
                     \E j \in old : file.file_path = From(text[j], 7)

\* C25: the session-state event of the change-watcher's pass goes to the
\* transport with the session state as it was when the pass put the event
\* on q_tx.
C25_EchoIsSnapshot ==
    s_pc = "send_text" =>
        \A i \in 1..Len(buffer) :
           (/\ buffer[i].msg.type = "session-state"
            /\ buffer[i].msg.src = "watcher"
            /\ buffer[i].msg.id = pass.first) =>
              buffer[i].state = <<pass.at>>

\* C24: the diff-summary and the diff of one change-watcher pass are
\* computed from one repository and one pair of endpoints: those of the
\* session state that the pass began with.
C24_PassReadsOneState ==
    \A e1, e2 \in PassEvents :
       (e1.type = "diff-summary" /\ e2.type = "diff") =>
          /\ e1.call = send_diff_summary(pass.at)
          /\ e2.call.cwd = send_diff(<<>>, pass.at).cwd
          /\ e2.call.from_commit = send_diff(<<>>, pass.at).from_commit
          /\ e2.call.to_commit = send_diff(<<>>, pass.at).to_commit

\* The diff-summary put on q_tx last is the one of the session state as it
\* is now (q_tx keeps every event where no send_loop runs).
SummaryFresh ==
    LET sums == {i \in 1..Len(q_tx) : q_tx[i].type = "diff-summary"}
    IN  send_diff_summary(state) # NoCall =>
           /\ sums # {}
           /\ q_tx[CHOOSE i \in sums : \A j \in sums : j <= i].call
                 = send_diff_summary(state)

\* C23: in a session in which no task fails, from some point on (the
\* commands having stopped) the diff-summary enqueued last is the one
\* computed from the repository and the endpoints as they are.
C23_SummaryCatchesUp == [](~closed) => <>[]SummaryFresh

\* Every event put on q_tx so far has been written to the transport.
AllWritten ==
    /\ Len(sent) = n_enq
    /\ \A i \in 1..Len(sent) : sent[i].id = i

C27_ClosedPathIsGone ==
    [][\A p \in Paths :
          Handles(WithArg("close-path", p)) =>
             p \notin Range(state'.open_paths)]_vars
====
